---- MODULE Spec2Model ----
(***************************************************************************)
(* Model of the two Tarpaulin coverage analysers of cyberelf/ranch:        *)
(*   scripts/analyze-coverage-json.py  (direct JSON report, "json")        *)
(*   scripts/analyze-coverage.py       (HTML-embedded report, "html")      *)
(* Text is modelled as TLA+ strings (display strings) or as sequences of   *)
(* whitespace-separated tokens (source lines, report text).                *)
(***************************************************************************)
EXTENDS Integers, Sequences, FiniteSets, TLC

VARIABLES
    lines,        \* argument of summarize_line_ranges
    line_ranges,  \* its return value, NotRun before the call
    script,       \* which script runs: "json" or "html"
    source,       \* the source file consulted for attribution, as its lines
    line_num,     \* the 1-based target line of extract_function_at_line
    func_name,    \* its return value, NotRun before the call
    examined,     \* the 0-based line indices the scan loop has read
    traces,       \* the trace list handed to analyze_file_coverage
    analysis,     \* the dict it returns, <<>> before the call
    report_exists,  \* whether the report file of the run exists
    report_text,    \* its text, as tokens
    report_object,  \* the members of the JSON object an Obj token of the text denotes
    pc,             \* where main() stands
    data,           \* the decoded report, NoData before it is loaded
    all_analyses,   \* the analyses collected by the run
    stdout,         \* what the run has printed, one record per item
    exit_status,    \* the exit status of the process, -1 while it runs
    disk,           \* the source files on disk, by path: [state, lines]
    next_file,      \* print_summary: position in sorted_analyses of the current file
    pending,        \* group_uncovered_by_function: the lines still to attribute
    func_groups     \* group_uncovered_by_function: func_lines, items in insertion order

rangeVars == <<lines, line_ranges>>
attrVars == <<script, source, line_num, func_name, examined>>
analyzeVars == <<traces, analysis>>
runVars == <<report_exists, report_text, report_object, pc, data, all_analyses,
             stdout, exit_status, disk, next_file, pending, func_groups>>
vars == <<rangeVars, attrVars, analyzeVars, runVars>>

NotRun == "<not run>"

(***************************************************************************)
(* Bounds of the explored inputs.                                          *)
(***************************************************************************)
MaxLine == 12
MaxLen == 5
MaxLines == 32
SmallLines == 3
MaxTraces == 3
MaxTraceLine == 2
MaxHits == 2
MaxReportLen == 4
MaxUncovered == 52
SmallUncovered == 3

LineValues == {-1, 1} \cup (9..MaxLine)

RECURSIVE SeqsUpTo(_, _)
SeqsUpTo(S, n) ==
    IF n = 0 THEN {<<>>}
    ELSE LET shorter == SeqsUpTo(S, n - 1)
         IN  shorter \cup {Append(s, x) : s \in {t \in shorter : Len(t) = n - 1}, x \in S}

Range(s) == {s[i] : i \in DOMAIN s}

SetMin(S) == CHOOSE x \in S : \A y \in S : x <= y

Distinct(s) == \A i, j \in DOMAIN s : i # j => s[i] # s[j]

(***************************************************************************)
(* Python helpers used by the scripts.                                     *)
(***************************************************************************)
Digit == <<"0", "1", "2", "3", "4", "5", "6", "7", "8", "9">>

RECURSIVE NatStr(_)
NatStr(n) == IF n < 10 THEN Digit[n + 1] ELSE NatStr(n \div 10) \o Digit[(n % 10) + 1]

\* str(int): decimal digits, a leading "-" for a negative number
str(n) == IF n < 0 THEN "-" \o NatStr(-n) ELSE NatStr(n)

RECURSIVE Join(_, _)
\* sep.join(parts)
Join(sep, parts) ==
    IF parts = <<>> THEN ""
    ELSE IF Len(parts) = 1 THEN parts[1]
    ELSE parts[1] \o sep \o Join(sep, Tail(parts))

\* s[:n]
Take(s, n) == SubSeq(s, 1, IF Len(s) < n THEN Len(s) ELSE n)

\* sorted() left out: the list is used in the order given
sorted_unsorted(s) == s

\* sorted(list of int): ascending, repeats kept
sorted(s) == SortSeq(s, LAMBDA a, b : a < b)

(***************************************************************************)
(* summarize_line_ranges (analyze-coverage-json.py)                        *)
(***************************************************************************)
MaxRangesShown == 3

\* the two branches that append a range: str(start) or f"{start}-{end}"
FormatRange(start, end) ==
    IF start = end THEN str(start) ELSE str(start) \o "-" \o str(end)

RECURSIVE RangeLoop(_, _, _, _, _)
\* the for loop over sorted_lines[1:], then "Add the last range"
RangeLoop(sorted_lines, i, start, end, ranges) ==
    IF i > Len(sorted_lines)
    THEN Append(ranges, FormatRange(start, end))
    ELSE LET line == sorted_lines[i]
         IN  IF line = end + 1
             THEN RangeLoop(sorted_lines, i + 1, start, line, ranges)
             ELSE RangeLoop(sorted_lines, i + 1, line, line,
                            Append(ranges, FormatRange(start, end)))

summarize_line_ranges(ls) ==
    IF ls = <<>> THEN ""
    ELSE LET sorted_lines == sorted(ls)
             ranges == RangeLoop(sorted_lines, 2, sorted_lines[1], sorted_lines[1], <<>>)
         IN  Join(", ", Take(ranges, MaxRangesShown))
                 \o (IF Len(ranges) > MaxRangesShown THEN " ..." ELSE "")

(***************************************************************************)
(* extract_function_at_line (both scripts).  A source line is modelled as  *)
(* its whitespace-separated tokens, a token as its sequence of characters. *)
(***************************************************************************)
Letters ==
    {"a", "b", "c", "d", "e", "f", "g", "h", "i", "j", "k", "l", "m",
     "n", "o", "p", "q", "r", "s", "t", "u", "v", "w", "x", "y", "z",
     "A", "B", "C", "D", "E", "F", "G", "H", "I", "J", "K", "L", "M",
     "N", "O", "P", "Q", "R", "S", "T", "U", "V", "W", "X", "Y", "Z"}
Digits == {"0", "1", "2", "3", "4", "5", "6", "7", "8", "9"}

\* [a-zA-Z_]
IdentStart == Letters \cup {"_"}
\* [a-zA-Z0-9_], also the \w of a word boundary
IdentChars == Letters \cup Digits \cup {"_"}
\* [a-zA-Z0-9_<>] of the direct-JSON script, [a-zA-Z0-9_] of the HTML script
ImplChars(scr) == IF scr = "json" THEN IdentChars \cup {"<", ">"} ELSE IdentChars

RECURSIVE Concat(_)
Concat(chars) == IF chars = <<>> THEN "" ELSE chars[1] \o Concat(Tail(chars))

RECURSIVE PrefixIn(_, _)
\* the greedy [class]* : the longest prefix of tok made of characters of class
PrefixIn(tok, class) ==
    IF tok = <<>> \/ tok[1] \notin class THEN <<>>
    ELSE <<tok[1]>> \o PrefixIn(Tail(tok), class)

\* the token ends with the keyword; with boundary, a \b precedes the keyword
EndsWith(tok, kw, boundary) ==
    /\ Len(tok) >= Len(kw)
    /\ SubSeq(tok, Len(tok) - Len(kw) + 1, Len(tok)) = kw
    /\ boundary => (Len(tok) = Len(kw) \/ tok[Len(tok) - Len(kw)] \notin IdentChars)

StartsIdent(line, k) == k <= Len(line) /\ line[k] # <<>> /\ line[k][1] \in IdentStart

KwFn == <<"f", "n">>
KwImpl == <<"i", "m", "p", "l">>
KwFor == <<"f", "o", "r">>

NoMatch == "<no match>"

\* re.search(r'\b(pub\s+)?(\basync\s+)?fn\s+([a-zA-Z_][a-zA-Z0-9_]*)', line),
\* group(3) of the leftmost match
fn_match(line) ==
    LET hits == {i \in 1..Len(line) : EndsWith(line[i], KwFn, TRUE) /\ StartsIdent(line, i + 1)}
    IN  IF hits = {} THEN NoMatch
        ELSE Concat(PrefixIn(line[SetMin(hits) + 1], IdentChars))

\* group(1) of the match that starts at the impl keyword of token i, if any:
\* the identifier after the first "<ws>for<ws>" that an identifier follows,
\* else the identifier right after "impl<ws>"
ImplGroupAt(line, i, scr) ==
    LET fors == {k \in (i + 2)..Len(line) : line[k] = KwFor /\ StartsIdent(line, k + 1)}
    IN  IF fors # {} THEN Concat(PrefixIn(line[SetMin(fors) + 1], ImplChars(scr)))
        ELSE IF StartsIdent(line, i + 1) THEN Concat(PrefixIn(line[i + 1], ImplChars(scr)))
        ELSE NoMatch

\* re.search(r'impl\s+(?:.*?\s+for\s+)?([a-zA-Z_][a-zA-Z0-9_<>]*)', line),
\* group(1) of the leftmost match (the HTML script's class has no <>)
impl_match(line, scr) ==
    LET hits == {i \in 1..Len(line) :
                    EndsWith(line[i], KwImpl, FALSE) /\ ImplGroupAt(line, i, scr) # NoMatch}
    IN  IF hits = {} THEN NoMatch ELSE ImplGroupAt(line, SetMin(hits), scr)

\* the body of the scan loop for one line: the function name first, then
\* f"impl {type}", NoMatch when the loop goes on
LineLabel(line, scr) ==
    LET fn == fn_match(line)
        impl == impl_match(line, scr)
    IN  IF fn # NoMatch THEN fn
        ELSE IF impl # NoMatch THEN "impl " \o impl
        ELSE NoMatch

WindowJson == 30
WindowHtml == 20
Window(scr) == IF scr = "json" THEN WindowJson ELSE WindowHtml

Max(a, b) == IF a > b THEN a ELSE b

\* the scan reaches back to the start of the file whatever the window
ScanStop_whole_file(n, window) == -1

\* range(start, stop, -1): stop is the first index NOT visited
ScanStart(n) == Max(0, n - 1)
ScanStop(n, window) == Max(0, n - window)

RECURSIVE ScanBackward(_, _, _, _, _)
\* for i in range(...): if i < len(lines): match or go on; "unknown" after the loop
ScanBackward(src, i, stop, scr, seen) ==
    IF i <= stop THEN [label |-> "unknown", examined |-> seen]
    ELSE IF i < Len(src)
         THEN LET found == LineLabel(src[i + 1], scr)
              IN  IF found # NoMatch
                  THEN [label |-> found, examined |-> seen \cup {i}]
                  ELSE ScanBackward(src, i - 1, stop, scr, seen \cup {i})
         ELSE ScanBackward(src, i - 1, stop, scr, seen)

\* the loop runs forward from the oldest line of the window
ScanLines_forward(src, n, scr) ==
    LET first == {i \in (ScanStop(n, Window(scr)) + 1)..ScanStart(n) :
                     i < Len(src) /\ LineLabel(src[i + 1], scr) # NoMatch}
    IN  IF first = {} THEN [label |-> "unknown", examined |-> {}]
        ELSE [label |-> LineLabel(src[SetMin(first) + 1], scr), examined |-> {SetMin(first)}]

ScanLines(src, n, scr) ==
    ScanBackward(src, ScanStart(n), ScanStop(n, Window(scr)), scr, {})

(***************************************************************************)
(* Source files of the attribution runs: filler lines with at most two     *)
(* declaration lines, the second right after or one line after the first.  *)
(***************************************************************************)
FillerLine == <<<<"x">>, <<"+", "=">>, <<"1", ";">>>>
DeclLines == <<
    <<<<"f", "n">>, <<"f", "o", "o", "(", ")">>, <<"{">>>>,
    <<<<"p", "u", "b">>, <<"a", "s", "y", "n", "c">>, <<"f", "n">>, <<"r", "u", "n", "(", "&", "s", "e", "l", "f", ")">>, <<"{">>>>,
    <<<<"i", "m", "p", "l">>, <<"A", "g", "e", "n", "t">>, <<"{">>>>,
    <<<<"i", "m", "p", "l">>, <<"T", "r">>, <<"f", "o", "r">>, <<"V", "e", "c", "<", "T", ">">>, <<"{">>>>,
    <<<<"i", "m", "p", "l">>, <<"A", "g", "e", "n", "t">>, <<"{">>, <<"f", "n">>, <<"n", "e", "w", "(", ")">>, <<"{">>>>>>

FileWith(len, placed) ==
    [i \in 1..len |-> IF i \in DOMAIN placed THEN placed[i] ELSE FillerLine]

FileLengths == (0..SmallLines) \cup {MaxLines}

SourceFiles ==
    {FileWith(len, <<>>) : len \in FileLengths}
    \cup {FileWith(len, (a :> DeclLines[d])) :
            len \in FileLengths, a \in 1..MaxLines, d \in DOMAIN DeclLines}
    \cup {FileWith(len, (a :> DeclLines[d]) @@ ((a + g) :> DeclLines[e])) :
            len \in FileLengths, a \in 1..MaxLines, g \in 1..2,
            d \in DOMAIN DeclLines, e \in DOMAIN DeclLines}

AttrIdle ==
    /\ script = "none"
    /\ source = <<>>
    /\ line_num = 0
    /\ func_name = NotRun
    /\ examined = {}

RangesIdle == lines = <<>> /\ line_ranges = NotRun

(***************************************************************************)
(* analyze_file_coverage (both scripts).  A Python dict is a function from *)
(* its keys; a trace is a dict with "line" and, possibly, "stats".         *)
(***************************************************************************)
EmptyDict == <<>>

\* d.get(key, default)
Get(d, key, default) == IF key \in DOMAIN d THEN d[key] ELSE default

\* trace.get('stats', {}).get('Line', 0) in the direct-JSON script;
\* trace['stats']['Line'] in the HTML script, which raises KeyError
HasLine(trace) == "stats" \in DOMAIN trace /\ "Line" \in DOMAIN trace["stats"]
HitCount(trace) == Get(Get(trace, "stats", EmptyDict), "Line", 0)

\* a percentage is kept as the exact fraction <<numerator, denominator>>;
\* a denominator of 0 stands for ZeroDivisionError
TrueDivTimes100(a, b) == <<a * 100, b>>
ZeroPercent == <<0, 1>>

\* the division without its guard
CoveragePercent_unguarded(covered_lines, total_lines) ==
    TrueDivTimes100(covered_lines, total_lines)

\* (covered_lines / total_lines * 100) if total_lines > 0 else 0
CoveragePercent(covered_lines, total_lines) ==
    IF total_lines > 0 THEN TrueDivTimes100(covered_lines, total_lines) ELSE ZeroPercent

RECURSIVE CountCovered(_)
\* sum(1 for trace in traces if <hit count> > 0)
CountCovered(trs) ==
    IF trs = <<>> THEN 0
    ELSE (IF HitCount(trs[1]) > 0 THEN 1 ELSE 0) + CountCovered(Tail(trs))

\* the uncovered lines come out in ascending order instead of trace order
UncoveredLineNums_sorted(trs) ==
    sorted([i \in 1..Len(SelectSeq(trs, LAMBDA t : HitCount(t) = 0)) |->
                SelectSeq(trs, LAMBDA t : HitCount(t) = 0)[i]["line"]])

RECURSIVE UncoveredLineNums(_)
\* [trace['line'] for trace in traces if <hit count> == 0]
UncoveredLineNums(trs) ==
    IF trs = <<>> THEN <<>>
    ELSE (IF HitCount(trs[1]) = 0 THEN <<trs[1]["line"]>> ELSE <<>>)
             \o UncoveredLineNums(Tail(trs))

AnalysisDict(path, trs) ==
    LET total_lines == Len(trs)
        covered_lines == CountCovered(trs)
        uncovered_lines == total_lines - covered_lines
    IN  [path |-> path,
         total_lines |-> total_lines,
         covered_lines |-> covered_lines,
         uncovered_lines |-> uncovered_lines,
         coverage_percent |-> CoveragePercent(covered_lines, total_lines),
         uncovered_line_numbers |-> UncoveredLineNums(trs)]

\* analyze-coverage-json.py
analyze_file_coverage_json(file_path, trs) == AnalysisDict(file_path, trs)

\* analyze-coverage.py: file_data has path (segments), content and, possibly,
\* traces; a trace without stats.Line raises KeyError
analyze_file_coverage_html(file_data) ==
    LET trs == Get(file_data, "traces", <<>>)
    IN  IF \E i \in DOMAIN trs : ~HasLine(trs[i])
        THEN [raised |-> "KeyError"]
        ELSE AnalysisDict(Join("/", file_data["path"]), trs)
                 @@ [content |-> file_data["content"]]

TraceValues ==
    {[line |-> n] : n \in 1..MaxTraceLine}
    \cup {[line |-> n, stats |-> EmptyDict] : n \in 1..MaxTraceLine}
    \cup {[line |-> n, stats |-> [Line |-> h]] : n \in 1..MaxTraceLine, h \in {-1, 0, MaxHits}}

SamplePath == <<"src", "/", "lib", ".rs">>
SamplePathSegments == <<"src", "lib.rs">>

AnalyzeIdle == traces = <<>> /\ analysis = <<>>

(***************************************************************************)
(* The report text.  It is modelled as a sequence of tokens: the marker    *)
(* 'var data = ', the semicolon, other text that is no JSON, and the JSON  *)
(* tokens 0, [, ] and Obj, a complete JSON object without a semicolon      *)
(* whose members are report_object.                                        *)
(***************************************************************************)
Marker == "var data = "
Semi == ";"
Junk == "<p>"
Num == "0"
LBr == "["
RBr == "]"
Obj == "{...}"

ReportTokens == {Marker, Semi, Junk, Num, LBr, RBr, Obj}

NoData == [type |-> "none"]

\* content.find(tok, start): the 0-based index of the first occurrence at or
\* after start, -1 when there is none
Find(content, tok, start) ==
    LET at == {i \in start..(Len(content) - 1) : content[i + 1] = tok}
    IN  IF at = {} THEN -1 ELSE SetMin(at)

\* content[from:to]
Slice(content, from, to) == SubSeq(content, from + 1, to)

RECURSIVE ParseValue(_, _, _)
\* the JSON decoder on tokens: a value starting at position pos
ParseValue(toks, pos, obj) ==
    IF pos > Len(toks) THEN [ok |-> FALSE]
    ELSE IF toks[pos] = Num THEN [ok |-> TRUE, next |-> pos + 1, val |-> [type |-> "number"]]
    ELSE IF toks[pos] = Obj
         THEN [ok |-> TRUE, next |-> pos + 1, val |-> [type |-> "object", members |-> obj]]
    ELSE IF toks[pos] = LBr
         THEN IF pos + 1 <= Len(toks) /\ toks[pos + 1] = RBr
              THEN [ok |-> TRUE, next |-> pos + 2, val |-> [type |-> "array", items |-> <<>>]]
              ELSE LET inner == ParseValue(toks, pos + 1, obj)
                   IN  IF inner.ok /\ inner.next <= Len(toks) /\ toks[inner.next] = RBr
                       THEN [ok |-> TRUE, next |-> inner.next + 1,
                             val |-> [type |-> "array", items |-> <<inner.val>>]]
                       ELSE [ok |-> FALSE]
    ELSE [ok |-> FALSE]

\* json.loads / json.load: one value and nothing after it, else JSONDecodeError
json_loads(toks, obj) ==
    LET r == ParseValue(toks, 1, obj)
    IN  IF r.ok /\ r.next = Len(toks) + 1 THEN [ok |-> TRUE, val |-> r.val] ELSE [ok |-> FALSE]

(***************************************************************************)
(* extract_var_data (analyze-coverage.py)                                  *)
(***************************************************************************)
MarkerLen == 1
FirstCharsShown == 500

\* the semicolon is searched from the start of the file
JsonEnd_from_file_start(content, json_start) == Find(content, Semi, 0)

\* json_end = content.find(';', json_start)
JsonEnd(content, json_start) == Find(content, Semi, json_start)

\* the whole function: [exit |-> TRUE, out |-> printed] on sys.exit(1),
\* [exit |-> FALSE, val |-> the decoded payload] on return
extract_var_data(content, obj) ==
    LET data_start == Find(content, Marker, 0)
        json_start == data_start + MarkerLen
        json_end == JsonEnd(content, json_start)
        json_str == Slice(content, json_start, json_end)
        loaded == json_loads(json_str, obj)
    IN  IF data_start = -1
        THEN [exit |-> TRUE,
              out |-> <<[kind |-> "error", text |-> "Could not find 'var data' in HTML file"]>>]
        ELSE IF json_end = -1
        THEN [exit |-> TRUE,
              out |-> <<[kind |-> "error", text |-> "Could not find end of 'var data' statement"]>>]
        ELSE IF loaded.ok
        THEN [exit |-> FALSE, val |-> loaded.val]
        ELSE [exit |-> TRUE,
              out |-> <<[kind |-> "error", text |-> "Error parsing JSON"],
                        [kind |-> "json_length", length |-> Len(json_str)],
                        [kind |-> "first_chars", text |-> Take(json_str, FirstCharsShown)]>>]

(***************************************************************************)
(* Sorting and printing shared by the two print_summary functions.         *)
(***************************************************************************)
\* p < q for two percentages kept as fractions
PercentLess(p, q) == p[1] * q[2] < q[1] * p[2]

RECURSIVE InsertByPercent(_, _)
InsertByPercent(a, s) ==
    IF s = <<>> THEN <<a>>
    ELSE IF PercentLess(a.coverage_percent, s[1].coverage_percent) THEN <<a>> \o s
    ELSE <<s[1]>> \o InsertByPercent(a, Tail(s))

RECURSIVE SortedByPercent(_)
\* sorted(all_analyses, key=lambda x: x['coverage_percent']): ascending, stable
SortedByPercent(s) ==
    IF s = <<>> THEN <<>>
    ELSE InsertByPercent(s[Len(s)], SortedByPercent(SubSeq(s, 1, Len(s) - 1)))

RECURSIVE SumField(_, _)
SumField(s, f) == IF s = <<>> THEN 0 ELSE s[1][f] + SumField(Tail(s), f)

\* the "Overall Coverage" block
OverallItem(analyses) ==
    LET total_all_lines == SumField(analyses, "total_lines")
        covered_all_lines == SumField(analyses, "covered_lines")
    IN  [kind |-> "overall",
         overall_coverage |-> CoveragePercent(covered_all_lines, total_all_lines),
         total |-> total_all_lines,
         covered |-> covered_all_lines,
         uncovered |-> total_all_lines - covered_all_lines]

RECURSIVE Flatten(_)
Flatten(ss) == IF ss = <<>> THEN <<>> ELSE ss[1] \o Flatten(Tail(ss))

(***************************************************************************)
(* analyze-coverage.py: find_uncovered_functions, print_summary, main      *)
(***************************************************************************)
\* content.split('\n'), the content being kept as its lines: the empty
\* string splits into one empty line
SplitLines(content) == IF content = <<>> THEN << <<>> >> ELSE content

extract_function_at_line_html(content, n) == ScanLines(SplitLines(content), n, "html").label

RECURSIVE FindUncovered(_, _, _, _)
FindUncovered(content, nums, seen_funcs, uncovered_funcs) ==
    IF nums = <<>> THEN uncovered_funcs
    ELSE LET fname == extract_function_at_line_html(content, nums[1])
         IN  IF fname \notin seen_funcs /\ fname # "unknown"
             THEN FindUncovered(content, Tail(nums), seen_funcs \cup {fname},
                                Append(uncovered_funcs, <<nums[1], fname>>))
             ELSE FindUncovered(content, Tail(nums), seen_funcs, uncovered_funcs)

find_uncovered_functions(file_analysis) ==
    FindUncovered(file_analysis.content, file_analysis.uncovered_line_numbers, {}, <<>>)

MaxFuncsShownHtml == 10
MaxLinesShownHtml == 20

print_summary_html(analyses) ==
    <<OverallItem(analyses)>> \o
    LET sorted_analyses == SortedByPercent(analyses)
    IN  [i \in 1..Len(sorted_analyses) |->
            [kind |-> "file",
             path |-> sorted_analyses[i].path,
             coverage_percent |-> sorted_analyses[i].coverage_percent,
             covered_lines |-> sorted_analyses[i].covered_lines,
             total_lines |-> sorted_analyses[i].total_lines,
             uncovered_lines |-> sorted_analyses[i].uncovered_lines,
             areas |-> Take(find_uncovered_functions(sorted_analyses[i]), MaxFuncsShownHtml)]]

\* the "DETAILED UNCOVERED LINES" section of main
DetailedItems(analyses) ==
    Flatten([i \in 1..Len(analyses) |->
        IF analyses[i].uncovered_lines > 0
        THEN <<[kind |-> "detailed",
                path |-> analyses[i].path,
                shown |-> Take(analyses[i].uncovered_line_numbers, MaxLinesShownHtml),
                more |-> Max(0, Len(analyses[i].uncovered_line_numbers) - MaxLinesShownHtml)]>>
        ELSE <<>>])

Traceback == [kind |-> "traceback"]

RunIdle ==
    /\ report_exists = FALSE
    /\ report_text = <<>>
    /\ report_object = <<>>
    /\ pc = "idle"
    /\ data = NoData
    /\ all_analyses = <<>>
    /\ stdout = <<>>
    /\ exit_status = -1
    /\ disk = <<>>
    /\ next_file = 0
    /\ pending = <<>>
    /\ func_groups = <<>>

(***************************************************************************)
(* analyze-coverage-json.py: attribution from the files on disk, grouping, *)
(* print_summary.  A path is kept as its tokens: directory and file names, *)
(* "/" and the extension.                                                  *)
(***************************************************************************)
PathStr(path) == Concat(path)

\* file_path.endswith('.rs')
EndsWithRs(path) == path # <<>> /\ path[Len(path)] = ".rs"

RECURSIVE PathLen(_)
\* len(short_path)
PathLen(path) == IF path = <<>> THEN 0 ELSE Len(path[1]) + PathLen(Tail(path))

RECURSIVE SplitSlash(_, _)
\* short_path.split('/'): cur is the part being read
SplitSlash(path, cur) ==
    IF path = <<>> THEN <<cur>>
    ELSE IF path[1] = "/" THEN <<cur>> \o SplitSlash(Tail(path), "")
    ELSE SplitSlash(Tail(path), cur \o path[1])

\* parts[-3:]
LastThree(parts) == SubSeq(parts, Max(1, Len(parts) - 2), Len(parts))

MaxPathShown == 70

\* "Shorten path for display"
ShortPath(path) ==
    IF PathLen(path) > MaxPathShown
    THEN Join("/", <<"...">> \o LastThree(SplitSlash(path, "")))
    ELSE PathStr(path)

MissingFile == [state |-> "missing", lines |-> <<>>]

\* Path(file_path) looked up from the working directory
FileAt(dsk, path) == IF PathStr(path) \in DOMAIN dsk THEN dsk[PathStr(path)] ELSE MissingFile

Raised == "<raised>"

\* the exception of open/readlines leaves the function
ReadFailure_propagates == Raised

\* except Exception: pass, then return "unknown"
ReadFailure == "unknown"

extract_function_at_line_json(file, n) ==
    IF file.state = "missing" THEN "unknown"
    ELSE IF file.state = "unreadable" THEN ReadFailure
    ELSE ScanLines(file.lines, n, "json").label

MaxGrouped == 50

\* every uncovered line is attributed
Processed_all(uncovered_lines) == uncovered_lines

\* uncovered_lines[:50]
Processed(uncovered_lines) == Take(uncovered_lines, MaxGrouped)

\* func_lines[func_name].append(line_num) on a defaultdict(list), kept as the
\* sequence of its items in insertion order
AppendTo(func_lines, fname, n) ==
    IF \E g \in 1..Len(func_lines) : func_lines[g][1] = fname
    THEN [g \in 1..Len(func_lines) |->
            IF func_lines[g][1] = fname
            THEN <<fname, Append(func_lines[g][2], n)>>
            ELSE func_lines[g]]
    ELSE Append(func_lines, <<fname, <<n>>>>)

\* one iteration of the loop of group_uncovered_by_function
GroupStep(file, n, func_lines) ==
    LET fname == extract_function_at_line_json(file, n)
    IN  IF fname = Raised THEN [raised |-> TRUE, groups |-> func_lines]
        ELSE [raised |-> FALSE, groups |-> AppendTo(func_lines, fname, n)]

MaxAreasShown == 5

\* the lines printed for one file of sorted_analyses, given its func_groups
FileItem(a, groups) ==
    [kind |-> "file",
     short_path |-> ShortPath(a.path),
     coverage_percent |-> a.coverage_percent,
     covered_lines |-> a.covered_lines,
     total_lines |-> a.total_lines,
     uncovered_lines |-> a.uncovered_lines,
     n_areas |-> Len(groups),
     areas |-> [g \in 1..Len(Take(groups, MaxAreasShown)) |->
                   <<groups[g][1], summarize_line_ranges(groups[g][2])>>]]

\* the first loop of print_summary: Rust files with traces
RECURSIVE AnalyzeItems(_)
AnalyzeItems(items) ==
    IF items = <<>> THEN <<>>
    ELSE (IF EndsWithRs(items[1][1]) /\ items[1][2] # <<>>
          THEN <<analyze_file_coverage_json(items[1][1], items[1][2])>>
          ELSE <<>>) \o AnalyzeItems(Tail(items))

(***************************************************************************)
(* Specification of the range summarizer: any list, then one call.         *)
(***************************************************************************)
InitRanges ==
    /\ lines \in SeqsUpTo(LineValues, MaxLen)
    /\ line_ranges = NotRun
    /\ AttrIdle
    /\ AnalyzeIdle
    /\ RunIdle

Summarize ==
    /\ line_ranges = NotRun
    /\ line_ranges' = summarize_line_ranges(lines)
    /\ UNCHANGED <<lines, attrVars, analyzeVars, runVars>>

NextRanges == Summarize

SpecRanges == InitRanges /\ [][NextRanges]_vars

(***************************************************************************)
(* Specification of the attribution heuristic: a file, a target line, a    *)
(* script, then one call of extract_function_at_line.                      *)
(***************************************************************************)
InitAttr ==
    /\ script \in {"json", "html"}
    /\ source \in SourceFiles
    /\ line_num \in 1..(MaxLines + 2)
    /\ func_name = NotRun
    /\ examined = {}
    /\ RangesIdle
    /\ AnalyzeIdle
    /\ RunIdle

ExtractFunctionAtLine ==
    /\ func_name = NotRun
    /\ LET r == ScanLines(source, line_num, script)
       IN  /\ func_name' = r.label
           /\ examined' = r.examined
    /\ UNCHANGED <<script, source, line_num, rangeVars, analyzeVars, runVars>>

NextAttr == ExtractFunctionAtLine

SpecAttr == InitAttr /\ [][NextAttr]_vars

(***************************************************************************)
(* Reference rendering of a set of line numbers, built from the set alone: *)
(* its maximal runs of consecutive integers in ascending order.            *)
(***************************************************************************)
RunStarts(S) == {x \in S : (x - 1) \notin S}

RunEnd(S, a) == CHOOSE y \in S : y >= a /\ (y + 1) \notin S /\ \A z \in a..y : z \in S

RECURSIVE AscendingRuns(_, _)
AscendingRuns(S, starts) ==
    IF starts = {} THEN <<>>
    ELSE LET a == SetMin(starts)
         IN  <<(<<a, RunEnd(S, a)>>)>> \o AscendingRuns(S, starts \ {a})

RenderRun(r) == IF r[1] = r[2] THEN str(r[1]) ELSE str(r[1]) \o "-" \o str(r[2])

ReferenceRendering(S) ==
    LET runs == AscendingRuns(S, RunStarts(S))
        shown == [i \in 1..(IF Len(runs) > 3 THEN 3 ELSE Len(runs)) |-> RenderRun(runs[i])]
    IN  Join(", ", shown) \o (IF Len(runs) > 3 THEN " ..." ELSE "")

RECURSIVE RemoveRepeats(_)
\* the list with every repeated value dropped, first occurrences kept in order
RemoveRepeats(s) ==
    IF s = <<>> THEN <<>>
    ELSE LET init == RemoveRepeats(SubSeq(s, 1, Len(s) - 1))
         IN  IF s[Len(s)] \in Range(init) THEN init ELSE Append(init, s[Len(s)])

\* C1: for a list of distinct integers in any order, summarize_line_ranges
\* returns the reference rendering of its value set (ascending maximal runs,
\* "N" or "start-end", the first 3 joined by ", ", " ..." iff more than 3
\* runs, "" for the empty list); the result depends on the value set only,
\* so permutations of one list give the same string.
C1_RangesMatchReference ==
    (line_ranges # NotRun /\ Distinct(lines))
        => /\ line_ranges = ReferenceRendering(Range(lines))
           /\ (lines = <<>> => line_ranges = "")

C1_Witness ==
    /\ lines = <<12, 1, 10, -1, 9>>
    /\ line_ranges = "-1, 1, 9-10 ..."

\* C2: duplicates collapse: the result for a list with repeated values equals
\* the result for the same list with the repeats removed.
C2_DuplicatesCollapse ==
    line_ranges # NotRun => line_ranges = summarize_line_ranges(RemoveRepeats(lines))

(***************************************************************************)
(* Claims about extract_function_at_line.                                  *)
(***************************************************************************)
\* line index j (0-based) exists and matches one of the two patterns
Matches(j) == j >= 0 /\ j < Len(source) /\ LineLabel(source[j + 1], script) # NoMatch

\* the existing line indices from N-1 down to max(0, N-W) inclusive
NominalWindow ==
    {j \in 0..(Len(source) - 1) :
        j <= line_num - 1 /\ j >= Max(0, line_num - Window(script))}

\* the label of one line: the function identifier when the function pattern
\* matches, "impl <TypeName>" when only the implementation pattern does
DeclLabel(j) ==
    IF fn_match(source[j + 1]) # NoMatch THEN fn_match(source[j + 1])
    ELSE "impl " \o impl_match(source[j + 1], script)

\* C3: the scan examines every existing line index from N-1 down to
\* max(0, N-W) inclusive (W lines), so a declaration on any of them,
\* the first line of the file included, is found and labels the target.
C3_WholeWindowExamined ==
    func_name # NotRun =>
        /\ func_name = "unknown" => NominalWindow \subseteq examined
        /\ (\E j \in NominalWindow : Matches(j)) => func_name # "unknown"

\* C4: the label returned is that of the nearest matching line at or before
\* the target, whichever pattern it satisfies; on a line matching both
\* patterns the function identifier is returned, an implementation block is
\* returned as "impl <TypeName>".
C4_NearestMatchWins ==
    (func_name # NotRun /\ func_name # "unknown") =>
        \E j \in examined :
            /\ Matches(j)
            /\ \A k \in (j + 1)..(line_num - 1) : ~Matches(k)
            /\ func_name = DeclLabel(j)

\* the nearer line is an impl block, the line before it (also inside the
\* scanned range) declares a function: the impl block labels the target
C4_Witness ==
    /\ func_name = "impl Agent"
    /\ \E j \in examined :
        /\ j - 1 > ScanStop(line_num, Window(script))
        /\ fn_match(source[j + 1]) = NoMatch
        /\ impl_match(source[j + 1], script) = "Agent"
        /\ fn_match(source[j]) # NoMatch

\* C5: "unknown" is returned whenever no line inside the backward scan
\* window matches, even if a declaration exists further back; a label other
\* than "unknown" is returned only if some line inside the window matches.
C5_UnknownWithoutMatchInWindow ==
    func_name # NotRun =>
        /\ (\A j \in NominalWindow : ~Matches(j)) => func_name = "unknown"
        /\ func_name # "unknown" => \E j \in NominalWindow : Matches(j)

\* a declaration exists further back than the window and is not reported
C5_Witness ==
    /\ func_name = "unknown"
    /\ line_num <= Len(source)
    /\ examined # {}
    /\ \E j \in 0..(Len(source) - 1) :
        j < line_num - Window(script) /\ Matches(j)

(***************************************************************************)
(* Specification of the per-file analyzer: a trace list, a script, then    *)
(* one call of analyze_file_coverage.                                      *)
(***************************************************************************)
InitAnalyze ==
    /\ script \in {"json", "html"}
    /\ traces \in SeqsUpTo(TraceValues, MaxTraces)
    /\ analysis = <<>>
    /\ source = <<>>
    /\ line_num = 0
    /\ func_name = NotRun
    /\ examined = {}
    /\ RangesIdle
    /\ RunIdle

AnalyzeFileCoverage ==
    /\ analysis = <<>>
    /\ analysis' =
          IF script = "json"
          THEN analyze_file_coverage_json(SamplePath, traces)
          ELSE analyze_file_coverage_html(
                   [path |-> SamplePathSegments, content |-> "", traces |-> traces])
    /\ UNCHANGED <<traces, script, source, line_num, func_name, examined, rangeVars, runVars>>

NextAnalyze == AnalyzeFileCoverage

SpecAnalyze == InitAnalyze /\ [][NextAnalyze]_vars

Analyzed == "total_lines" \in DOMAIN analysis

\* the hit counts are non-negative; in the HTML script stats.Line is present
\* in every trace, in the direct-JSON script an absent one counts as 0
NonNegativeHits ==
    \A i \in DOMAIN traces :
        /\ script = "html" => HasLine(traces[i])
        /\ HasLine(traces[i]) => traces[i]["stats"]["Line"] >= 0

\* C6: with non-negative hit counts, covered + uncovered = total = number of
\* traces, 0 <= covered, uncovered <= total, and the percentage of a file
\* with no trace is exactly 0, no division being performed.
C6_CountsPartitionTotal ==
    NonNegativeHits =>
        (analysis # <<>> =>
            /\ Analyzed
            /\ analysis.total_lines = Len(traces)
            /\ analysis.covered_lines + analysis.uncovered_lines = analysis.total_lines
            /\ analysis.covered_lines \in 0..analysis.total_lines
            /\ analysis.uncovered_lines \in 0..analysis.total_lines
            /\ analysis.total_lines = 0 => analysis.coverage_percent = ZeroPercent
            /\ analysis.coverage_percent[2] # 0)

C6_Witness ==
    /\ Analyzed
    /\ NonNegativeHits
    /\ analysis.total_lines = 0
    /\ analysis.coverage_percent = ZeroPercent

\* the line fields of the traces whose hit count is 0, in trace order
ZeroHit(t) == ~HasLine(t) \/ t["stats"]["Line"] = 0
ZeroHitLines ==
    LET zero == SelectSeq(traces, ZeroHit)
    IN  [i \in 1..Len(zero) |-> zero[i]["line"]]

\* C8: with non-negative hit counts, uncovered_line_numbers is exactly the
\* subsequence of the line fields of the traces whose hit count is 0 (an
\* absent stats.Line counting as 0 in the direct-JSON script), in input
\* order; its length equals uncovered_lines.
C8_UncoveredLinesInTraceOrder ==
    (NonNegativeHits /\ analysis # <<>>) =>
        /\ Analyzed
        /\ analysis.uncovered_line_numbers = ZeroHitLines
        /\ Len(analysis.uncovered_line_numbers) = analysis.uncovered_lines

\* descending line numbers, an absent stats.Line among them
C8_Witness ==
    /\ Analyzed
    /\ script = "json"
    /\ NonNegativeHits
    /\ \E i \in DOMAIN traces : ~HasLine(traces[i])
    /\ \E i \in DOMAIN traces : HasLine(traces[i]) /\ traces[i]["stats"]["Line"] > 0
    /\ analysis.uncovered_line_numbers = <<2, 1>>

(***************************************************************************)
(* Specification of a run of analyze-coverage.py (the HTML report).        *)
(***************************************************************************)
TraceOf(n, h) == [line |-> n, stats |-> [Line |-> h]]

HtmlGoodFile ==
    [path |-> <<"src", "lib.rs">>,
     content |-> FileWith(4, (2 :> DeclLines[1])),
     traces |-> <<TraceOf(1, 1), TraceOf(3, 0), TraceOf(4, 0)>>]
HtmlCoveredFile ==
    [path |-> <<"src", "main.rs">>,
     content |-> FileWith(2, (1 :> DeclLines[3])),
     traces |-> <<TraceOf(2, 0)>>]
HtmlBadFile ==
    [path |-> <<"src", "bad.rs">>,
     content |-> <<>>,
     traces |-> <<[line |-> 1]>>]

HtmlObjects ==
    {EmptyDict,
     [files |-> <<HtmlGoodFile>>],
     [files |-> <<HtmlGoodFile, HtmlCoveredFile>>],
     [files |-> <<HtmlGoodFile, HtmlBadFile>>]}

InitHtml ==
    /\ script = "html"
    /\ \/ /\ report_exists = TRUE
          /\ report_text \in SeqsUpTo(ReportTokens, MaxReportLen)
          /\ report_object \in IF Obj \in Range(report_text) THEN HtmlObjects ELSE {EmptyDict}
       \/ /\ report_exists = FALSE
          /\ report_text = <<>>
          /\ report_object = EmptyDict
    /\ pc = "main"
    /\ data = NoData
    /\ all_analyses = <<>>
    /\ stdout = <<>>
    /\ exit_status = -1
    /\ disk = <<>>
    /\ next_file = 0
    /\ pending = <<>>
    /\ func_groups = <<>>
    /\ source = <<>>
    /\ line_num = 0
    /\ func_name = NotRun
    /\ examined = {}
    /\ RangesIdle
    /\ AnalyzeIdle

HtmlUnchanged ==
    UNCHANGED <<rangeVars, attrVars, analyzeVars, report_exists, report_text, report_object,
                disk, next_file, pending, func_groups>>

\* main: "Find the tarpaulin report"
HtmlFindReport ==
    /\ script = "html"
    /\ pc = "main"
    /\ IF report_exists
       THEN /\ stdout' = Append(stdout, [kind |-> "analyzing"])
            /\ pc' = "extract"
            /\ UNCHANGED exit_status
       ELSE /\ stdout' = Append(stdout, [kind |-> "error", text |-> "Could not find report"])
            /\ pc' = "exited"
            /\ exit_status' = 1
    /\ UNCHANGED <<data, all_analyses>>
    /\ HtmlUnchanged

\* main: data = extract_var_data(report_file)
HtmlExtractVarData ==
    /\ script = "html"
    /\ pc = "extract"
    /\ LET r == extract_var_data(report_text, report_object)
       IN  IF r.exit
           THEN /\ stdout' = stdout \o r.out
                /\ pc' = "exited"
                /\ exit_status' = 1
                /\ UNCHANGED data
           ELSE /\ data' = r.val
                /\ pc' = "analyze"
                /\ UNCHANGED <<stdout, exit_status>>
    /\ UNCHANGED all_analyses
    /\ HtmlUnchanged

\* main: "Analyze each file"; data.get on a value that is no dict and a
\* KeyError of analyze_file_coverage end the run with a traceback
HtmlAnalyzeFiles ==
    /\ script = "html"
    /\ pc = "analyze"
    /\ LET files == IF data.type = "object" THEN Get(data.members, "files", <<>>) ELSE <<>>
           results == [i \in 1..Len(files) |-> analyze_file_coverage_html(files[i])]
       IN  IF data.type # "object" \/ \E i \in 1..Len(files) : "raised" \in DOMAIN results[i]
           THEN /\ stdout' = Append(stdout, Traceback)
                /\ pc' = "exited"
                /\ exit_status' = 1
                /\ UNCHANGED all_analyses
           ELSE /\ all_analyses' = results
                /\ pc' = "print"
                /\ UNCHANGED <<stdout, exit_status>>
    /\ UNCHANGED data
    /\ HtmlUnchanged

\* main: print_summary(all_analyses), then the detailed section
HtmlPrintSummary ==
    /\ script = "html"
    /\ pc = "print"
    /\ stdout' = stdout \o print_summary_html(all_analyses) \o DetailedItems(all_analyses)
    /\ pc' = "exited"
    /\ exit_status' = 0
    /\ UNCHANGED <<data, all_analyses>>
    /\ HtmlUnchanged

NextHtml ==
    \/ HtmlFindReport
    \/ HtmlExtractVarData
    \/ HtmlAnalyzeFiles
    \/ HtmlPrintSummary

SpecHtml == InitHtml /\ [][NextHtml]_vars

\* the payload of the claim: the text between the first marker and the first
\* semicolon after it, cut by positions counted from 1
HasMarker == \E i \in 1..Len(report_text) : report_text[i] = Marker
FirstMarker == SetMin({i \in 1..Len(report_text) : report_text[i] = Marker})
HasSemiAfterMarker ==
    HasMarker /\ \E i \in (FirstMarker + 1)..Len(report_text) : report_text[i] = Semi
FirstSemiAfterMarker ==
    SetMin({i \in (FirstMarker + 1)..Len(report_text) : report_text[i] = Semi})
Payload == SubSeq(report_text, FirstMarker + 1, FirstSemiAfterMarker - 1)

RECURSIVE ValidJson(_)
\* the JSON texts over the tokens: 0, an object, [] and [value]
ValidJson(toks) ==
    \/ toks = <<Num>>
    \/ toks = <<Obj>>
    \/ /\ Len(toks) >= 2
       /\ toks[1] = LBr
       /\ toks[Len(toks)] = RBr
       /\ (Len(toks) = 2 \/ ValidJson(SubSeq(toks, 2, Len(toks) - 1)))

RECURSIVE Decoded(_)
Decoded(toks) ==
    IF toks = <<Num>> THEN [type |-> "number"]
    ELSE IF toks = <<Obj>> THEN [type |-> "object", members |-> report_object]
    ELSE IF Len(toks) = 2 THEN [type |-> "array", items |-> <<>>]
    ELSE [type |-> "array", items |-> <<Decoded(SubSeq(toks, 2, Len(toks) - 1))>>]

GoodPayload == HasSemiAfterMarker /\ ValidJson(Payload)

Printed(kind) == \E i \in 1..Len(stdout) : stdout[i].kind = kind

\* C7: once extract_var_data has run, a value was returned exactly when the
\* text between the first marker and the first ';' after it parses as
\* JSON, and it is that payload decoded; when the marker is absent, no ';'
\* follows it or the payload is no JSON, the run has ended with exit status
\* 1 and has produced no file analysis and no summary.
C7_PayloadOrExit ==
    (report_exists /\ pc \notin {"main", "extract"}) =>
        /\ GoodPayload => data = Decoded(Payload)
        /\ data # NoData => GoodPayload
        /\ ~GoodPayload =>
              /\ pc = "exited"
              /\ exit_status = 1
              /\ data = NoData
              /\ all_analyses = <<>>
              /\ ~Printed("overall") /\ ~Printed("file") /\ ~Printed("detailed")

\* a semicolon before the marker and one after the payload: the payload is
\* cut at the one after, decoded, analysed and printed
C7_Witness ==
    /\ report_text = <<Semi, Marker, Obj, Semi>>
    /\ data = [type |-> "object", members |-> report_object]
    /\ exit_status = 0
    /\ Printed("file")

(***************************************************************************)
(* Specification of a run of analyze-coverage-json.py: a report of one or  *)
(* two files, the first with up to MaxUncovered uncovered lines in         *)
(* ascending or descending order, and the source files found on disk.      *)
(***************************************************************************)
BigPath == <<"src", "/", "agent", ".rs">>
LongPath ==
    <<"crates", "/", "a_rather_long_workspace_member_directory_name", "/",
      "src", "/", "handlers", "/", "streaming_response", ".rs">>
ReadmePath == <<"README", ".md">>
EmptyPath == <<"src", "/", "empty", ".rs">>

BigSourceLen == 45
BigSources ==
    {FileWith(BigSourceLen, <<>>),
     FileWith(BigSourceLen, (3 :> DeclLines[1]) @@ (40 :> DeclLines[4])),
     FileWith(BigSourceLen, (2 :> DeclLines[5]) @@ (4 :> DeclLines[2]))}

DiskFiles(sources) ==
    {[state |-> "missing", lines |-> <<>>], [state |-> "unreadable", lines |-> <<>>]}
    \cup {[state |-> "ok", lines |-> src] : src \in sources}

UncoveredCounts == (0..SmallUncovered) \cup ((MaxGrouped - 1)..MaxUncovered)

\* n uncovered traces (the first of them without stats), ascending or
\* descending by line, then c covered ones
BigTraces(n, descending, c) ==
    [i \in 1..n |->
        LET ln == IF descending THEN n + 1 - i ELSE i
        IN  IF i = 1 THEN [line |-> ln] ELSE TraceOf(ln, 0)]
    \o [i \in 1..c |-> TraceOf(MaxUncovered + i, MaxHits)]

SmallTraces == <<TraceOf(1, 1), TraceOf(2, 0), TraceOf(3, 0)>>
SmallSources == {FileWith(3, (2 :> DeclLines[3]))}

\* the second entry of the report and the disk file that goes with it
SecondEntries ==
    {[item |-> <<>>, file |-> MissingFile],
     [item |-> << <<ReadmePath, SmallTraces>> >>, file |-> MissingFile],
     [item |-> << <<EmptyPath, <<>>>> >>, file |-> MissingFile]}
    \cup {[item |-> << <<LongPath, SmallTraces>> >>, file |-> f] : f \in DiskFiles(SmallSources)}

JsonReports ==
    {[items |-> IF bigFirst THEN << <<BigPath, BigTraces(n, d, c)>> >> \o second.item
                ELSE second.item \o << <<BigPath, BigTraces(n, d, c)>> >>,
      disk |-> (PathStr(BigPath) :> big) @@ (PathStr(LongPath) :> second.file)] :
        n \in UncoveredCounts, d \in BOOLEAN, c \in 0..1, big \in DiskFiles(BigSources),
        second \in SecondEntries, bigFirst \in BOOLEAN}

SampleReport ==
    [items |-> << <<BigPath, BigTraces(2, FALSE, 1)>> >>,
     disk |-> (PathStr(BigPath) :> MissingFile)]

InitJson ==
    /\ script = "json"
    /\ \E r \in JsonReports \cup {SampleReport} :
          /\ report_object = [traces |-> r.items]
          /\ disk = r.disk
          /\ \/ report_exists = TRUE /\ report_text = <<Obj>>
             \/ /\ r = SampleReport
                /\ \/ report_exists = FALSE /\ report_text = <<>>
                   \/ /\ report_exists = TRUE
                      /\ report_text \in {<<>>, <<Num>>, <<Obj, Junk>>, <<LBr, Obj, RBr>>}
    /\ pc = "main"
    /\ data = NoData
    /\ all_analyses = <<>>
    /\ stdout = <<>>
    /\ exit_status = -1
    /\ next_file = 0
    /\ pending = <<>>
    /\ func_groups = <<>>
    /\ source = <<>>
    /\ line_num = 0
    /\ func_name = NotRun
    /\ examined = {}
    /\ RangesIdle
    /\ AnalyzeIdle

JsonUnchanged ==
    UNCHANGED <<rangeVars, attrVars, analyzeVars, report_exists, report_text, report_object,
                disk>>

\* main: "Find the coverage.json file"
JsonFindReport ==
    /\ script = "json"
    /\ pc = "main"
    /\ IF report_exists
       THEN /\ stdout' = Append(stdout, [kind |-> "analyzing"])
            /\ pc' = "load"
            /\ UNCHANGED exit_status
       ELSE /\ stdout' = stdout \o <<[kind |-> "error", text |-> "Could not find report"],
                                     [kind |-> "hint", text |-> "Run cargo tarpaulin first"]>>
            /\ pc' = "exited"
            /\ exit_status' = 1
    /\ UNCHANGED <<data, all_analyses, next_file, pending, func_groups>>
    /\ JsonUnchanged

\* main: load_coverage_json inside try/except
JsonLoadCoverage ==
    /\ script = "json"
    /\ pc = "load"
    /\ LET r == json_loads(report_text, report_object)
       IN  IF r.ok
           THEN /\ data' = r.val
                /\ pc' = "summary"
                /\ UNCHANGED <<stdout, exit_status>>
           ELSE /\ stdout' = Append(stdout, [kind |-> "error", text |-> "Error loading coverage data"])
                /\ pc' = "exited"
                /\ exit_status' = 1
                /\ UNCHANGED data
    /\ UNCHANGED <<all_analyses, next_file, pending, func_groups>>
    /\ JsonUnchanged

\* print_summary up to the per-file loop: the analyses and the overall block,
\* or "No coverage data found"; coverage_data.get on a value that is no dict
\* ends the run with a traceback
JsonAnalyzeFiles ==
    /\ script = "json"
    /\ pc = "summary"
    /\ IF data.type # "object"
       THEN /\ stdout' = stdout \o <<[kind |-> "header"], Traceback>>
            /\ pc' = "exited"
            /\ exit_status' = 1
            /\ UNCHANGED <<all_analyses, next_file>>
       ELSE LET found == AnalyzeItems(Get(data.members, "traces", <<>>))
            IN  /\ all_analyses' = found
                /\ IF found # <<>>
                   THEN /\ stdout' = stdout \o <<[kind |-> "header"], OverallItem(found)>>
                        /\ pc' = "files"
                        /\ next_file' = 1
                        /\ UNCHANGED exit_status
                   ELSE /\ stdout' = stdout \o <<[kind |-> "header"], [kind |-> "no_data"]>>
                        /\ pc' = "exited"
                        /\ exit_status' = 0
                        /\ UNCHANGED next_file
    /\ UNCHANGED <<data, pending, func_groups>>
    /\ JsonUnchanged

\* the file print_summary is working on
CurrentAnalysis == SortedByPercent(all_analyses)[next_file]

\* the end of one iteration of "for analysis in sorted_analyses": the next
\* file, or the return of print_summary and main
NextFileOrReturn ==
    IF next_file = Len(all_analyses)
    THEN /\ pc' = "exited"
         /\ exit_status' = 0
         /\ UNCHANGED next_file
    ELSE /\ pc' = "files"
         /\ next_file' = next_file + 1
         /\ UNCHANGED exit_status

\* one iteration of "for analysis in sorted_analyses" up to the call of
\* group_uncovered_by_function, or the whole of it when nothing is uncovered
JsonPrintFile ==
    /\ script = "json"
    /\ pc = "files"
    /\ LET a == CurrentAnalysis
       IN  IF a.total_lines > 0 /\ a.uncovered_lines > 0
           THEN /\ pending' = Processed(a.uncovered_line_numbers)
                /\ func_groups' = <<>>
                /\ pc' = "group"
                /\ UNCHANGED <<stdout, next_file, exit_status>>
           ELSE /\ stdout' = IF a.total_lines > 0 THEN Append(stdout, FileItem(a, <<>>))
                             ELSE stdout
                /\ NextFileOrReturn
                /\ UNCHANGED <<pending, func_groups>>
    /\ UNCHANGED <<data, all_analyses>>
    /\ JsonUnchanged

\* group_uncovered_by_function: one iteration of its loop; an exception that
\* leaves extract_function_at_line ends the run with a traceback
JsonGroupLine ==
    /\ script = "json"
    /\ pc = "group"
    /\ pending # <<>>
    /\ LET g == GroupStep(FileAt(disk, CurrentAnalysis.path), pending[1], func_groups)
       IN  IF g.raised
           THEN /\ stdout' = Append(stdout, Traceback)
                /\ pc' = "exited"
                /\ exit_status' = 1
                /\ UNCHANGED <<pending, func_groups>>
           ELSE /\ func_groups' = g.groups
                /\ pending' = Tail(pending)
                /\ UNCHANGED <<stdout, pc, exit_status>>
    /\ UNCHANGED <<data, all_analyses, next_file>>
    /\ JsonUnchanged

\* group_uncovered_by_function returns; the file and its areas are printed
JsonPrintAreas ==
    /\ script = "json"
    /\ pc = "group"
    /\ pending = <<>>
    /\ stdout' = Append(stdout, FileItem(CurrentAnalysis, func_groups))
    /\ NextFileOrReturn
    /\ UNCHANGED <<data, all_analyses, pending, func_groups>>
    /\ JsonUnchanged

NextJson ==
    \/ JsonFindReport
    \/ JsonLoadCoverage
    \/ JsonAnalyzeFiles
    \/ JsonPrintFile
    \/ JsonGroupLine
    \/ JsonPrintAreas

SpecJson == InitJson /\ [][NextJson]_vars

(***************************************************************************)
(* Claims about the grouping and about unreadable source files.            *)
(***************************************************************************)
\* group_uncovered_by_function is about to return func_groups
GroupReturns == script = "json" /\ pc = "group" /\ pending = <<>>

\* the items of stdout that print a file, in order
FileItems == SelectSeq(stdout, LAMBDA item : item.kind = "file")

\* C9: group_uncovered_by_function partitions the first min(50, n) uncovered
\* line numbers of the file: each of them is in the list of exactly one
\* label, the label extract_function_at_line gives it; no line beyond the
\* 50th is in any list; each list keeps the input order; no list is empty;
\* the labels come in the order of their first occurrence.
C9_GroupsPartitionFirstFifty ==
    GroupReturns =>
        LET nums == CurrentAnalysis.uncovered_line_numbers
            file == FileAt(disk, CurrentAnalysis.path)
            k == IF Len(nums) < 50 THEN Len(nums) ELSE 50
            label == SubSeq([i \in 1..Len(nums) |->
                                extract_function_at_line_json(file, nums[i])], 1, k)
            HasLabel(lab) == {i \in 1..k : label[i] = lab}
            IndicesOf(lab) == SelectSeq([i \in 1..k |-> i], LAMBDA i : label[i] = lab)
            LinesOf(lab) == [m \in 1..Len(IndicesOf(lab)) |-> nums[IndicesOf(lab)[m]]]
            G == func_groups
        IN  /\ \A i \in 1..k :
                  /\ Cardinality({g \in 1..Len(G) : nums[i] \in Range(G[g][2])}) = 1
                  /\ \E g \in 1..Len(G) : G[g][1] = label[i] /\ nums[i] \in Range(G[g][2])
            /\ \A j \in (k + 1)..Len(nums) : \A g \in 1..Len(G) : nums[j] \notin Range(G[g][2])
            /\ \A g \in 1..Len(G) :
                  /\ G[g][2] # <<>>
                  /\ G[g][2] = LinesOf(G[g][1])
            /\ \A g, h \in 1..Len(G) :
                  g < h => /\ G[g][1] # G[h][1]
                           /\ SetMin(HasLabel(G[g][1])) < SetMin(HasLabel(G[h][1]))

\* 52 uncovered lines in descending order, 50 of them grouped under three
\* labels
C9_Witness ==
    /\ GroupReturns
    /\ Len(CurrentAnalysis.uncovered_line_numbers) = 52
    /\ CurrentAnalysis.uncovered_line_numbers[1] = 52
    /\ Len(func_groups) = 3
    /\ func_groups[1][1] = "impl Vec<T>"
    /\ func_groups[2][1] = "unknown"
    /\ func_groups[3] = <<"foo", [m \in 1..29 |-> 32 - m]>>

\* C10: in the direct-JSON script a source file that does not exist or
\* cannot be read gives the label "unknown" and does not abort the run: the
\* grouping goes through every remaining line and print_summary prints every
\* remaining file.
C10_UnreadableSourceDoesNotAbort ==
    /\ (script = "json" /\ pc \in {"files", "group"}) =>
          /\ exit_status = -1
          /\ ~Printed("traceback")
    /\ (script = "json" /\ pc = "group") =>
          LET nums == Processed(CurrentAnalysis.uncovered_line_numbers)
              done == Len(nums) - Len(pending)
          IN  /\ pending = SubSeq(nums, done + 1, Len(nums))
              /\ Len(Flatten([g \in 1..Len(func_groups) |-> func_groups[g][2]])) = done
              /\ FileAt(disk, CurrentAnalysis.path).state # "ok" =>
                    func_groups = IF done = 0 THEN <<>>
                                  ELSE << <<"unknown", SubSeq(nums, 1, done)>> >>
    /\ (script = "json" /\ pc = "exited" /\ all_analyses # <<>>) =>
          /\ exit_status = 0
          /\ ~Printed("traceback")
          /\ Len(FileItems) = Len(all_analyses)
          /\ \A i \in 1..Len(FileItems) :
                FileItems[i].short_path = ShortPath(SortedByPercent(all_analyses)[i].path)

\* the first file printed cannot be read, all its lines go to "unknown"; the
\* file after it is still printed, with its own areas
C10_Witness ==
    /\ script = "json"
    /\ pc = "exited"
    /\ exit_status = 0
    /\ Len(FileItems) = 2
    /\ FileAt(disk, SortedByPercent(all_analyses)[1].path).state = "unreadable"
    /\ FileItems[1].n_areas = 1
    /\ FileItems[1].areas[1][1] = "unknown"
    /\ FileItems[1].uncovered_lines = 52
    /\ FileItems[2].areas = << <<"impl Agent", "2-3">> >>

====
